---- MODULE Spec2Model ----
(***************************************************************************)
(* State-machine model of the API logger background script                 *)
(* (src/background.js): the APILogger instance, the webRequest event       *)
(* handlers, the control-message dispatcher, and the asynchronous calls    *)
(* to chrome.storage.local and chrome.downloads that it leaves in flight.  *)
(*                                                                         *)
(* Every handler of the script runs to completion before the next event    *)
(* is handled; it is one action here.  An `await` splits a handler in two  *)
(* actions: the part before it, and the continuation that runs when the    *)
(* awaited call has settled.                                               *)
(***************************************************************************)
EXTENDS Integers, Sequences, FiniteSets, TLC

VARIABLES
    revision,      \* which of the two class definitions of background.js runs
    now,           \* the wall clock, in ms (what Date.now() returns next, at least)
    isLogging,     \* this.isLogging
    filters,       \* this.filters
    tempRequests,  \* this.tempRequests: Map requestId -> logEntry
    logs,          \* this.logs
    storage,       \* chrome.storage.local, the slot apiLogs
    calls,         \* asynchronous calls in flight, in the order they were issued
    inflight,      \* environment: the requests the browser has in flight, by requestId
    nreq,          \* environment: how many request events have been delivered
    nmsg,          \* environment: how many control messages have been delivered
    limits,        \* environment: the bounds of this session's traffic
    appends,       \* history: per request event, how many records were built from it
    wiped,         \* history: the request ordinals of the records that the
                   \* clearLogs handlers that have replied had removed
                   \* from the log and from the slot
    emptied,       \* history: a clearLogs handler has started, its clear
                   \* has not failed, and no response or error event has
                   \* been delivered since
    written,       \* history: the snapshot of the write issued last, and
                   \* whether another write was in flight when it was issued
    last           \* what the last step did: the handler run and its outputs

vars == <<revision, now, isLogging, filters, tempRequests, logs, storage,
          calls, inflight, nreq, nmsg, limits, appends, wiped, emptied,
          written, last>>

----------------------------------------------------------------------------
(* Bounds of the model. *)

MaxReq == 2      \* request events delivered in one session
MaxMsgs == 3     \* control messages delivered in one session
MaxId == 1       \* requestIds the browser hands out: 1..MaxId
MaxTicks == 0    \* ms the clock advances in one session
MaxCalls == 2    \* asynchronous calls in flight at once
MaxOld == 1      \* records a short previous session left in the slot

Limits(req, msgs, ids, ticks, inFlight, descriptors) ==
    [req |-> req, msgs |-> msgs, ids |-> ids, ticks |-> ticks, calls |-> inFlight,
     descriptors |-> descriptors]

(* Program constants. *)

PersistCap == 1000       \* this.logs.slice(-1000)
MsPerDay == 86400000     \* the date portion of an ISO-8601 instant

Ids == 1..limits.ids
StartTime == MsPerDay - 1

----------------------------------------------------------------------------
(* Strings.  A URL and a URL filter are sequences of tokens; includes and  *)
(* startsWith are computed on them as String.prototype computes them on    *)
(* characters.                                                             *)

startsWith(s, p) ==
    /\ Len(p) <= Len(s)
    /\ SubSeq(s, 1, Len(p)) = p

includes(s, p) ==
    \E i \in 0..(Len(s) - Len(p)) : SubSeq(s, i + 1, i + Len(p)) = p

arrayIncludes(a, x) == \E i \in 1..Len(a) : a[i] = x

ApiUrl == <<"https://x.com", "/api/", "items">>

(* An undefined value: a missing message field, a missing storage key. *)
Undefined == [kind |-> "undefined"]
IsUndefined(v) == v = Undefined

(* The FilterConfig of the constructor. *)
DefaultFilters ==
    [urls |-> << >>, methods |-> <<"GET", "POST", "PUT", "DELETE", "PATCH">>]

(* The spec's example FilterConfig. *)
ApiGetFilters == [urls |-> << <<"/api/">> >>, methods |-> <<"GET">>]

(* The filters field of a startLogging or setFilters message. *)
MessageFilters == {Undefined, DefaultFilters, ApiGetFilters}

(* The request descriptors of a session of API traffic. *)
ApiDescriptors ==
    { [method |-> "GET", url |-> ApiUrl, requestBody |-> "none"],
      [method |-> "POST", url |-> ApiUrl, requestBody |-> "rawBad"] }

(* The request descriptors the browser delivers in this session. *)
Descriptors == limits.descriptors

----------------------------------------------------------------------------
(* Dates.  An ISO-8601 string is its date portion and the ms within the    *)
(* day; Date parses it back to the ms since the epoch.                     *)

toISOString(t) == [date |-> t \div MsPerDay, time |-> t % MsPerDay]
getTime(iso) == iso.date * MsPerDay + iso.time

(* The instants a clock read can return: the clock does not run backwards. *)
ClockReads == now..(StartTime + limits.ticks)

----------------------------------------------------------------------------
(* Map and Array helpers. *)

MapSet(m, k, v) == [i \in DOMAIN m \cup {k} |-> IF i = k THEN v ELSE m[i]]
MapDelete(m, k) == [i \in DOMAIN m \ {k} |-> m[i]]
EmptyMap == [i \in {} |-> Undefined]

(* Array.prototype.slice(-n): the last n elements, or all of them. *)
sliceAll(a, n) == a

sliceLast(a, n) ==
    IF Len(a) <= n THEN a ELSE SubSeq(a, Len(a) - n + 1, Len(a))

(* Array.prototype.push. *)
pushByRequest(a, r) ==
    LET k == Cardinality({i \in 1..Len(a) : a[i].req <= r.req})
    IN  SubSeq(a, 1, k) \o <<r>> \o SubSeq(a, k + 1, Len(a))

push(a, r) == Append(a, r)

RemoveAt(s, i) == SubSeq(s, 1, i - 1) \o SubSeq(s, i + 1, Len(s))

ReqsOf(records) == {records[i].req : i \in 1..Len(records)}

----------------------------------------------------------------------------
(* shouldLog (background.js 99-116).  this.filters.methods of an undefined *)
(* FilterConfig raises a TypeError.                                        *)

shouldLogThrows(f) == IsUndefined(f)

shouldLogNoiseFirst(details, f) ==
    IF ~arrayIncludes(f.methods, details.method) THEN FALSE
    ELSE IF \/ startsWith(details.url, <<"chrome-extension://">>)
            \/ startsWith(details.url, <<"moz-extension://">>)
            \/ includes(details.url, <<"favicon.ico">>)
         THEN FALSE
    ELSE IF Len(f.urls) > 0
         THEN \E i \in 1..Len(f.urls) : includes(details.url, f.urls[i])
    ELSE TRUE

shouldLog(details, f) ==
    IF ~arrayIncludes(f.methods, details.method) THEN FALSE
    ELSE IF Len(f.urls) > 0
         THEN \E i \in 1..Len(f.urls) : includes(details.url, f.urls[i])
    ELSE IF \/ startsWith(details.url, <<"chrome-extension://">>)
            \/ startsWith(details.url, <<"moz-extension://">>)
            \/ includes(details.url, <<"favicon.ico">>)
         THEN FALSE
    ELSE TRUE

(* The guard at the top of onRequest, onResponse and onError:              *)
(* "pass", "return" or "throw".                                            *)
AdmissionNoFlag(details) ==
    IF shouldLogThrows(filters) THEN "throw"
    ELSE IF ~shouldLog(details, filters) THEN "return"
    ELSE "pass"

Admission(details) ==
    IF ~isLogging THEN "return"
    ELSE IF shouldLogThrows(filters) THEN "throw"
    ELSE IF ~shouldLog(details, filters) THEN "return"
    ELSE "pass"

(* parseRequestBody (background.js 118-136). *)
parseRequestBody(requestBody) ==
    CASE requestBody = "none" -> [type |-> "null"]
      [] requestBody = "formData" -> [type |-> "formData"]
      [] requestBody = "rawJson" -> [type |-> "json"]
      [] requestBody = "rawBad" -> [type |-> "raw"]

----------------------------------------------------------------------------
(* What a step did.  op: the handler that ran, "" for a step of the        *)
(* browser alone; id: the requestId of its event, 0 when it has none;      *)
(* done: it ran to its end or raised; threw: it raised; sent: its          *)
(* sendResponse calls, in order;                                           *)
(* merged: <<ordinal of the request event that built the pending entry,    *)
(* ordinal of the request the completion event belongs to>> when the step  *)
(* appended a record; delivery: the export it handed to a sink; removed:   *)
(* the request ordinals of the records a clearLogs handler had removed,    *)
(* when it ends; request: the filters field of the startLogging or         *)
(* setFilters message it handled.                                          *)

NoMerge == <<0, 0>>
NoDelivery == [sink |-> "none"]

Out(op, done, threw, sent, merged, delivery) ==
    [op |-> op, id |-> 0, done |-> done, threw |-> threw, sent |-> sent,
     merged |-> merged, delivery |-> delivery, removed |-> {},
     request |-> Undefined]

Idle == Out("", TRUE, FALSE, << >>, NoMerge, NoDelivery)
Threw(op) == Out(op, TRUE, TRUE, << >>, NoMerge, NoDelivery)
Event(op, id, threw, merged) ==
    [Out(op, TRUE, threw, << >>, merged, NoDelivery) EXCEPT !.id = id]
Replied(op, reply) == Out(op, TRUE, FALSE, <<reply>>, NoMerge, NoDelivery)

(* An asynchronous call in flight. *)
Call(kind, arg) == [kind |-> kind, phase |-> "issued", ok |-> TRUE, arg |-> arg]

----------------------------------------------------------------------------
(* The state after `new APILogger()` and the call of loadFromStorage of    *)
(* the module's last lines: the constructor's fields, no tempRequests map  *)
(* yet, and the storage read of loadFromStorage in flight.  The slot holds *)
(* what an earlier session saved: nothing, or closed records.              *)

OldRecord ==
    [id |-> 1, timestamp |-> toISOString(0), type |-> "REQUEST",
     method |-> "GET", url |-> ApiUrl, requestBody |-> [type |-> "null"],
     req |-> 0, responseTimestamp |-> toISOString(1), statusCode |-> 200,
     responseHeaders |-> "headers", duration |-> 1]

OldLogs(n) == [i \in 1..n |-> OldRecord]

NoSlot == [present |-> FALSE, apiLogs |-> << >>]
NoWrite == [snapshot |-> NoSlot, concurrent |-> FALSE]
Slot(records) == [present |-> TRUE, apiLogs |-> records]

InitLogger ==
    /\ revision \in {1, 2}
    /\ now = StartTime
    /\ isLogging = FALSE
    /\ filters = DefaultFilters
    /\ tempRequests = EmptyMap
    /\ logs = << >>
    /\ calls = <<Call("get", NoSlot)>>
    /\ inflight = EmptyMap
    /\ nreq = 0
    /\ nmsg = 0
    /\ appends = [r \in {} |-> 0]
    /\ wiped = {}
    /\ emptied = FALSE
    /\ written = NoWrite
    /\ last = Idle

Init ==
    /\ InitLogger
    /\ limits = Limits(MaxReq, MaxMsgs, MaxId, MaxTicks, MaxCalls,
                       ApiDescriptors)
    /\ storage \in {NoSlot} \cup {Slot(OldLogs(n)) : n \in 1..MaxOld}

----------------------------------------------------------------------------
(* onRequest (background.js 42-59). *)

logEntry(details, t) ==
    [id |-> details.requestId, timestamp |-> toISOString(t), type |-> "REQUEST",
     method |-> details.method, url |-> details.url,
     requestBody |-> parseRequestBody(details.requestBody),
     req |-> details.req]

onRequest(details) ==
    LET verdict == Admission(details) IN
    IF verdict = "pass"
    THEN \E t \in ClockReads :
            /\ tempRequests' = MapSet(tempRequests, details.requestId,
                                      logEntry(details, t))
            /\ now' = t
            /\ last' = Event("onRequest", details.requestId, FALSE, NoMerge)
    ELSE /\ UNCHANGED <<tempRequests, now>>
         /\ last' = Event("onRequest", details.requestId, verdict = "throw",
                          NoMerge)

(* The browser starts a request and delivers onBeforeRequest.  A requestId *)
(* is unique among the requests in flight.                                 *)
RequestEvent ==
    \E id \in Ids \ DOMAIN inflight, d \in Descriptors :
        LET details == [requestId |-> id, method |-> d.method, url |-> d.url,
                        requestBody |-> d.requestBody, req |-> nreq + 1]
        IN  /\ nreq < limits.req
            /\ nreq' = nreq + 1
            /\ inflight' = MapSet(inflight, id, details)
            /\ onRequest(details)
            /\ UNCHANGED <<revision, isLogging, filters, logs, storage, calls,
                           nmsg, limits, appends, wiped, emptied, written>>

----------------------------------------------------------------------------
(* saveToStorage (background.js 176-180): the snapshot is taken at the     *)
(* call, the write is left in flight.                                      *)

saveToStorage(records) == Call("set", Slot(sliceLast(records, PersistCap)))

(* The record onResponse builds (background.js 67-73), and the one onError *)
(* builds (88-93): the spread of the pending entry, and the new fields.    *)

completeEntry(requestEntry, details, t1, t2) ==
    [responseTimestamp |-> toISOString(t1),
     statusCode |-> details.statusCode,
     responseHeaders |-> details.responseHeaders,
     duration |-> t2 - getTime(requestEntry.timestamp)] @@ requestEntry

errorEntryBare(requestEntry, details, t1, t2) ==
    [responseTimestamp |-> toISOString(t1),
     duration |-> t2 - getTime(requestEntry.timestamp)] @@ requestEntry

errorEntry(requestEntry, details, t1, t2) ==
    [responseTimestamp |-> toISOString(t1),
     error |-> details.error,
     duration |-> t2 - getTime(requestEntry.timestamp)] @@ requestEntry

Count(req) == IF req \in DOMAIN appends THEN appends[req] ELSE 0

(* this.tempRequests.delete(details.requestId) (background.js 76, 96). *)
keepEntry(id) == tempRequests
deleteEntry(id) == MapDelete(tempRequests, id)

(* The early returns of onResponse and onError (background.js 62, 65 and   *)
(* 83, 86), and a TypeError raised by shouldLog: nothing is changed.       *)
IgnoreButSave(op, details, verdict) ==
    /\ UNCHANGED <<logs, tempRequests, now, appends, written>>
    /\ Len(calls) < limits.calls
    /\ calls' = Append(calls, [kind |-> "set", phase |-> "issued", ok |-> TRUE,
                               arg |-> [present |-> TRUE, apiLogs |-> logs]])
    /\ last' = Event(op, details.requestId, verdict = "throw", NoMerge)

Ignore(op, details, verdict) ==
    /\ UNCHANGED <<logs, tempRequests, now, appends, calls, written>>
    /\ last' = Event(op, details.requestId, verdict = "throw", NoMerge)

(* The part onResponse and onError share: the guard, the lookup, the push  *)
(* and the delete.  save: onResponse calls saveToStorage after the push.   *)
Complete(op, details, save) ==
    LET verdict == Admission(details)
        id == details.requestId
    IN  IF verdict = "pass" /\ id \in DOMAIN tempRequests
        THEN \E t1 \in ClockReads : \E t2 \in {t \in ClockReads : t >= t1} :
               LET requestEntry == tempRequests[id]
                   record == IF op = "onResponse"
                             THEN completeEntry(requestEntry, details, t1, t2)
                             ELSE errorEntry(requestEntry, details, t1, t2)
               IN  /\ logs' = push(logs, record)
                   /\ tempRequests' = deleteEntry(id)
                   /\ now' = t2
                   /\ appends' = MapSet(appends, requestEntry.req,
                                        Count(requestEntry.req) + 1)
                   /\ IF save
                      THEN /\ Len(calls) < limits.calls
                           /\ calls' = Append(calls, saveToStorage(logs'))
                           /\ written' =
                                  [snapshot |-> saveToStorage(logs').arg,
                                   concurrent |->
                                       \E i \in 1..Len(calls) :
                                           calls[i].kind = "set"]
                      ELSE UNCHANGED <<calls, written>>
                   /\ last' = Event(op, id, FALSE,
                                    <<requestEntry.req, details.req>>)
        ELSE Ignore(op, details, verdict)

(* onResponse (background.js 61-80). *)
onResponse(details) == Complete("onResponse", details, TRUE)

onErrorSaves(details) == Complete("onError", details, TRUE)

onErrorIgnored(details) == Ignore("onError", details, "return")

(* onError (background.js 82-97). *)
onError(details) == Complete("onError", details, FALSE)

(* The browser completes a request in flight and delivers onCompleted. *)
ResponseEvent ==
    \E id \in DOMAIN inflight :
        /\ onResponse([statusCode |-> 200, responseHeaders |-> "headers"]
                      @@ inflight[id])
        /\ inflight' = MapDelete(inflight, id)
        /\ emptied' = FALSE
        /\ UNCHANGED <<revision, isLogging, filters, storage, nreq, nmsg,
                       limits, wiped>>

(* The browser fails a request in flight and delivers onErrorOccurred. *)
ErrorEvent ==
    \E id \in DOMAIN inflight :
        /\ onError([error |-> "net::ERR_FAILED"] @@ inflight[id])
        /\ inflight' = MapDelete(inflight, id)
        /\ emptied' = FALSE
        /\ UNCHANGED <<revision, isLogging, filters, storage, nreq, nmsg,
                       limits, wiped>>

----------------------------------------------------------------------------
(* handleMessage (background.js 138-174), one action per case.  The        *)
(* listener returns true, so the channel stays open until sendResponse.    *)

Success(message) == [success |-> TRUE, message |-> message]

(* A control message is delivered. *)
Delivered ==
    /\ nmsg < limits.msgs
    /\ nmsg' = nmsg + 1
    /\ UNCHANGED <<revision, inflight, nreq, limits, appends>>

StartLoggingAssigns ==
    \E f \in MessageFilters :
        /\ Delivered
        /\ isLogging' = TRUE
        /\ filters' = f
        /\ last' = [Replied("startLogging", Success("Logging started"))
                    EXCEPT !.request = f]
        /\ UNCHANGED <<now, tempRequests, logs, storage, calls, wiped,
                       emptied, written>>

(* case 'startLogging' *)
StartLogging ==
    \E f \in MessageFilters :
        /\ Delivered
        /\ isLogging' = TRUE
        /\ filters' = IF IsUndefined(f) THEN filters ELSE f
        /\ last' = [Replied("startLogging", Success("Logging started"))
                    EXCEPT !.request = f]
        /\ UNCHANGED <<now, tempRequests, logs, storage, calls, wiped,
                       emptied, written>>

(* case 'stopLogging' *)
StopLogging ==
    /\ Delivered
    /\ isLogging' = FALSE
    /\ last' = Replied("stopLogging", Success("Logging stopped"))
    /\ UNCHANGED <<now, filters, tempRequests, logs, storage, calls, wiped,
                   emptied, written>>

GetLogsFromSlot ==
    /\ Delivered
    /\ last' = Replied("getLogs", [logs |-> storage.apiLogs,
                                   count |-> Len(storage.apiLogs)])
    /\ UNCHANGED <<now, isLogging, filters, tempRequests, logs, storage,
                   calls, wiped, emptied, written>>

(* case 'getLogs' *)
GetLogs ==
    /\ Delivered
    /\ last' = Replied("getLogs", [logs |-> logs, count |-> Len(logs)])
    /\ UNCHANGED <<now, isLogging, filters, tempRequests, logs, storage,
                   calls, wiped, emptied, written>>

ClearLogsAndTable ==
    /\ Delivered
    /\ Len(calls) < limits.calls
    /\ logs' = << >>
    /\ tempRequests' = EmptyMap
    /\ calls' = Append(calls, Call("clear", [removed |-> ReqsOf(logs)]))
    /\ last' = Out("clearLogs", FALSE, FALSE, << >>, NoMerge, NoDelivery)
    /\ emptied' = TRUE
    /\ UNCHANGED written
    /\ UNCHANGED <<now, isLogging, filters, storage, wiped>>

(* case 'clearLogs', up to the await: the log is emptied and the storage   *)
(* clear is issued.                                                        *)
ClearLogs ==
    /\ Delivered
    /\ Len(calls) < limits.calls
    /\ logs' = << >>
    /\ calls' = Append(calls, Call("clear", [removed |-> ReqsOf(logs)]))
    /\ last' = Out("clearLogs", FALSE, FALSE, << >>, NoMerge, NoDelivery)
    /\ emptied' = TRUE
    /\ UNCHANGED written
    /\ UNCHANGED <<now, isLogging, filters, tempRequests, storage, wiped>>

(* case 'clearLogs', after the await: the reply, or the rejection of the   *)
(* awaited clear raised in the handler.                                    *)
ClearLogsResumes ==
    \E i \in 1..Len(calls) :
        /\ calls[i].kind = "clear"
        /\ calls[i].phase = "settled"
        /\ calls' = RemoveAt(calls, i)
        /\ last' = [Out("clearLogs", TRUE, ~calls[i].ok,
                        IF calls[i].ok THEN <<Success("Logs cleared")>>
                                       ELSE << >>,
                        NoMerge, NoDelivery)
                    EXCEPT !.removed = calls[i].arg.removed]
        /\ wiped' = IF calls[i].ok THEN wiped \cup calls[i].arg.removed
                                   ELSE wiped
        /\ emptied' = (emptied /\ calls[i].ok)
        /\ UNCHANGED written
        /\ UNCHANGED <<revision, now, isLogging, filters, tempRequests, logs,
                       storage, inflight, nreq, nmsg, limits, appends>>

(* case 'setFilters': the message's filters field, whatever it holds. *)
SetFilters ==
    \E f \in MessageFilters :
        /\ Delivered
        /\ filters' = f
        /\ last' = [Replied("setFilters", Success("Filters updated"))
                    EXCEPT !.request = f]
        /\ UNCHANGED <<now, isLogging, tempRequests, logs, storage, calls, wiped,
                       emptied, written>>

(* default: any other action, such as content.js's 'logFromContent'. *)
OtherActions == {"logFromContent"}

UnknownActionFallsThrough ==
    \E a \in OtherActions :
        /\ Delivered
        /\ filters' = Undefined
        /\ last' = Replied(a, Success("Filters updated"))
        /\ UNCHANGED <<now, isLogging, tempRequests, logs, storage, calls, wiped,
                       emptied, written>>

UnknownAction ==
    \E a \in OtherActions :
        /\ Delivered
        /\ last' = Replied(a, [error |-> "Unknown action"])
        /\ UNCHANGED <<now, isLogging, filters, tempRequests, logs, storage,
                       calls, wiped, emptied, written>>

----------------------------------------------------------------------------
(* exportLogs: the document and the filename.  JSON.stringify leaves out   *)
(* a key whose value is undefined.                                         *)

exportDataTail(t) ==
    [exportDate |-> toISOString(t),
     totalRequests |-> Len(sliceLast(logs, PersistCap)),
     filters |-> filters, logs |-> sliceLast(logs, PersistCap)]

exportData(t) ==
    [exportDate |-> toISOString(t), totalRequests |-> Len(logs),
     filters |-> filters, logs |-> logs]

stringify(doc) ==
    IF IsUndefined(doc.filters)
    THEN [k \in DOMAIN doc \ {"filters"} |-> doc[k]]
    ELSE doc

filename(t) == <<"api-logs-", toISOString(t).date, ".json">>

(* exportLogsAlternative (background.js 436-490): a new tab that shows the *)
(* document, the filename and the number of records at that moment.        *)
exportLogsAlternative(dataStr, name) ==
    [sink |-> "tab", filename |-> name, document |-> dataStr,
     total |-> Len(logs)]

download(dataStr, name) ==
    [sink |-> "downloads", filename |-> name, document |-> dataStr]

(* case 'exportLogs' with the first definition of exportLogs (189-208):    *)
(* chrome.downloads.download is called unguarded, its promise is dropped.  *)
(* Without chrome.downloads the call raises before sendResponse.           *)
exportLogsFirst(available, t1, t2) ==
    /\ revision = 1
    /\ now' = t2
    /\ UNCHANGED calls
    /\ last' = IF available
               THEN Out("exportLogs", TRUE, FALSE, <<Success("Export started")>>,
                        NoMerge, download(stringify(exportData(t1)), filename(t2)))
               ELSE Threw("exportLogs")

(* case 'exportLogs' with the second definition (402-434): the download's  *)
(* promise is kept for its catch; without chrome.downloads the new tab.    *)
exportLogsSecond(available, t1, t2) ==
    /\ revision = 2
    /\ now' = t2
    /\ IF available
       THEN /\ Len(calls) < limits.calls
            /\ calls' = Append(calls,
                   Call("download", download(stringify(exportData(t1)), filename(t2))))
            /\ last' = Out("exportLogs", TRUE, FALSE, <<Success("Export started")>>,
                           NoMerge, download(stringify(exportData(t1)), filename(t2)))
       ELSE /\ UNCHANGED calls
            /\ last' = Out("exportLogs", TRUE, FALSE, <<Success("Export started")>>,
                           NoMerge,
                           exportLogsAlternative(stringify(exportData(t1)), filename(t2)))

ExportLogs ==
    \E available \in BOOLEAN :
    \E t1 \in ClockReads : \E t2 \in {t \in ClockReads : t >= t1} :
        /\ Delivered
        /\ \/ exportLogsFirst(available, t1, t2)
           \/ exportLogsSecond(available, t1, t2)
        /\ UNCHANGED <<isLogging, filters, tempRequests, logs, storage, wiped,
                       emptied, written>>

(* The download settles; a rejection runs the catch of the second          *)
(* definition (425-429).                                                   *)
DownloadSettles ==
    \E i \in 1..Len(calls) : \E ok \in BOOLEAN :
        /\ calls[i].kind = "download"
        /\ calls' = RemoveAt(calls, i)
        /\ last' = IF ok THEN Idle
                   ELSE Out("download.catch", TRUE, FALSE, << >>, NoMerge,
                            exportLogsAlternative(calls[i].arg.document,
                                                  calls[i].arg.filename))
        /\ UNCHANGED <<revision, now, isLogging, filters, tempRequests, logs,
                       storage, inflight, nreq, nmsg, limits, appends, wiped,
                       emptied, written>>

----------------------------------------------------------------------------
(* chrome.storage.local.  A call issued takes effect at some later moment  *)
(* and then settles; the API states no order among the calls in flight.    *)
(* A call can fail; it then changes nothing and its promise rejects.       *)

StorageSetDropsOnFailure ==
    \E i \in 1..Len(calls) : \E ok \in BOOLEAN :
        /\ calls[i].kind = "set"
        /\ storage' = IF ok THEN calls[i].arg ELSE storage
        /\ logs' = IF ok THEN logs ELSE storage.apiLogs
        /\ calls' = RemoveAt(calls, i)
        /\ last' = Idle
        /\ UNCHANGED <<revision, now, isLogging, filters, tempRequests,
                       inflight, nreq, nmsg, limits, appends, wiped, emptied,
                       written>>

(* A write of saveToStorage takes effect.  Nothing awaits its promise. *)
StorageSet ==
    \E i \in 1..Len(calls) : \E ok \in BOOLEAN :
        /\ calls[i].kind = "set"
        /\ storage' = IF ok THEN calls[i].arg ELSE storage
        /\ calls' = RemoveAt(calls, i)
        /\ last' = Idle
        /\ UNCHANGED <<revision, now, isLogging, filters, tempRequests, logs,
                       inflight, nreq, nmsg, limits, appends, wiped, emptied,
                       written>>

(* The clear of clearLogs takes effect; its handler is still suspended. *)
StorageClear ==
    \E i \in 1..Len(calls) : \E ok \in BOOLEAN :
        /\ calls[i].kind = "clear"
        /\ calls[i].phase = "issued"
        /\ storage' = IF ok THEN NoSlot ELSE storage
        /\ calls' = [calls EXCEPT
                        ![i].phase = "settled",
                        ![i].ok = ok,
                        ![i].arg.removed =
                            IF ok THEN @ \cup ReqsOf(storage.apiLogs) ELSE @]
        /\ last' = Idle
        /\ UNCHANGED <<revision, now, isLogging, filters, tempRequests, logs,
                       inflight, nreq, nmsg, limits, appends, wiped, emptied,
                       written>>

(* The read of loadFromStorage is served with the slot as it is then. *)
StorageGet ==
    \E i \in 1..Len(calls) :
        /\ calls[i].kind = "get"
        /\ calls[i].phase = "issued"
        /\ calls' = [calls EXCEPT ![i].phase = "settled", ![i].arg = storage]
        /\ last' = Idle
        /\ UNCHANGED <<revision, now, isLogging, filters, tempRequests, logs,
                       storage, inflight, nreq, nmsg, limits, appends, wiped,
                       emptied, written>>

(* loadFromStorage (background.js 182-187) after its await: an array read  *)
(* from the slot, empty or not, replaces this.logs.                        *)
loadFromStorage ==
    \E i \in 1..Len(calls) :
        /\ calls[i].kind = "get"
        /\ calls[i].phase = "settled"
        /\ logs' = IF calls[i].arg.present THEN calls[i].arg.apiLogs ELSE logs
        /\ calls' = RemoveAt(calls, i)
        /\ last' = Idle
        /\ UNCHANGED <<revision, now, isLogging, filters, tempRequests, storage,
                       inflight, nreq, nmsg, limits, appends, wiped, emptied,
                       written>>

----------------------------------------------------------------------------
Next ==
    \/ RequestEvent
    \/ ResponseEvent
    \/ ErrorEvent
    \/ StartLogging
    \/ StopLogging
    \/ GetLogs
    \/ ClearLogs
    \/ ClearLogsResumes
    \/ ExportLogs
    \/ DownloadSettles
    \/ SetFilters
    \/ UnknownAction
    \/ StorageSet
    \/ StorageClear
    \/ StorageGet
    \/ loadFromStorage

Spec == Init /\ [][Next]_vars

----------------------------------------------------------------------------
(* A session that starts with the slot filled to the cap by the session    *)
(* before it, under smaller bounds of traffic.                             *)

FullReq == 1     \* request events delivered in the session
FullMsgs == 2    \* control messages delivered in the session

InitFull ==
    /\ InitLogger
    /\ limits = Limits(FullReq, FullMsgs, 1, 0, MaxCalls, ApiDescriptors)
    /\ storage = Slot(OldLogs(PersistCap))

SpecFull == InitFull /\ [][Next]_vars

----------------------------------------------------------------------------
(* A session in which the clock advances, under smaller bounds of traffic. *)

ClockReq == 1     \* request events delivered in the session
ClockMsgs == 2    \* control messages delivered in the session
ClockTicks == 1   \* ms the clock advances in the session

InitClock ==
    /\ InitLogger
    /\ limits = Limits(ClockReq, ClockMsgs, 1, ClockTicks, MaxCalls,
                       ApiDescriptors)
    /\ storage \in {NoSlot} \cup {Slot(OldLogs(n)) : n \in 1..MaxOld}

SpecClock == InitClock /\ [][Next]_vars

----------------------------------------------------------------------------
(* A session in which two requests are in flight at once. *)

OrderReq == 2     \* request events delivered in the session
OrderMsgs == 2    \* control messages delivered in the session
OrderIds == 2     \* requestIds the browser hands out

InitOrder ==
    /\ InitLogger
    /\ limits = Limits(OrderReq, OrderMsgs, OrderIds, 0, MaxCalls,
                       ApiDescriptors)
    /\ storage = NoSlot

SpecOrder == InitOrder /\ [][Next]_vars

----------------------------------------------------------------------------
(* A session of mixed traffic under one FilterConfig: the script has       *)
(* started and has answered a startLogging message that carried the        *)
(* FilterConfig; the browser then delivers the events of one request.      *)

FilterUrls ==
    { ApiUrl,
      <<"https://x.com", "/home">>,
      <<"https://x.com", "/", "favicon.ico">>,
      <<"https://x.com", "/api/", "favicon.ico">>,
      <<"chrome-extension://", "abcdef", "/api/", "popup.js">>,
      <<"moz-extension://", "abcdef", "/popup.js">>,
      <<"https://x.com", "/?from=", "chrome-extension://", "abcdef">> }

FilterDescriptors ==
    { [method |-> m, url |-> u, requestBody |-> "none"] :
          m \in {"GET", "POST", "OPTIONS"}, u \in FilterUrls }

FilterConfigs ==
    { [urls |-> u, methods |-> m] :
          u \in { << >>, << <<"/api/">> >>, << <<"/v2/">>, <<"/api/">> >>,
                  << <<"favicon.ico">> >> },
          m \in { << >>, <<"GET">>, DefaultFilters.methods } }

InitFilter ==
    /\ revision \in {1, 2}
    /\ now = StartTime
    /\ isLogging = TRUE
    /\ filters \in FilterConfigs
    /\ tempRequests = EmptyMap
    /\ logs = << >>
    /\ storage = NoSlot
    /\ calls = <<Call("get", NoSlot)>>
    /\ inflight = EmptyMap
    /\ nreq = 0
    /\ nmsg = 1
    /\ limits = Limits(1, 1, 1, 0, MaxCalls, FilterDescriptors)
    /\ appends = [r \in {} |-> 0]
    /\ wiped = {}
    /\ emptied = FALSE
    /\ written = NoWrite
    /\ last = [Replied("startLogging", Success("Logging started"))
                EXCEPT !.request = filters]

NextFilter ==
    \/ RequestEvent
    \/ ResponseEvent
    \/ ErrorEvent

SpecFilter == InitFilter /\ [][NextFilter]_vars

----------------------------------------------------------------------------
(* A session in which logging stays enabled under one FilterConfig: the    *)
(* script has started and has answered a startLogging message; no later    *)
(* message is a startLogging, stopLogging or setFilters.  The browser      *)
(* completes or fails every request it has in flight.                      *)

LiveReq == 2      \* request events delivered in the session
LiveMsgs == 2     \* control messages delivered in the session
LiveIds == 2      \* requestIds the browser hands out

InitLive ==
    /\ revision \in {1, 2}
    /\ now = StartTime
    /\ isLogging = TRUE
    /\ filters \in {DefaultFilters, ApiGetFilters}
    /\ tempRequests = EmptyMap
    /\ logs = << >>
    /\ storage = NoSlot
    /\ calls = <<Call("get", NoSlot)>>
    /\ inflight = EmptyMap
    /\ nreq = 0
    /\ nmsg = 1
    /\ limits = Limits(LiveReq, LiveMsgs, LiveIds, 0, MaxCalls, ApiDescriptors)
    /\ appends = [r \in {} |-> 0]
    /\ wiped = {}
    /\ emptied = FALSE
    /\ written = NoWrite
    /\ last = [Replied("startLogging", Success("Logging started"))
                EXCEPT !.request = filters]

NextLive ==
    \/ RequestEvent
    \/ ResponseEvent
    \/ ErrorEvent
    \/ GetLogs
    \/ ClearLogs
    \/ ClearLogsResumes
    \/ ExportLogs
    \/ DownloadSettles
    \/ UnknownAction
    \/ StorageSet
    \/ StorageClear
    \/ StorageGet
    \/ loadFromStorage

SpecLive ==
    /\ InitLive
    /\ [][NextLive]_vars
    /\ WF_vars(ResponseEvent \/ ErrorEvent)

----------------------------------------------------------------------------
(* Properties.                                                             *)

HasKey(r, k) == k \in DOMAIN r
RequestHalf(r) == {"id", "timestamp", "method", "url"} \subseteq DOMAIN r
Closed(r) == RequestHalf(r) /\ (HasKey(r, "statusCode") # HasKey(r, "error"))
HalfBuilt(r) == RequestHalf(r) /\ ~HasKey(r, "statusCode") /\ ~HasKey(r, "error")

(* C1: every record of this.logs is closed: it has the request half and    *)
(* exactly one of statusCode and error; the records with the request half  *)
(* alone are the entries of tempRequests.                                  *)
C1_LogStoreClosed ==
    /\ \A i \in 1..Len(logs) : Closed(logs[i])
    /\ \A id \in DOMAIN tempRequests : HalfBuilt(tempRequests[id])

(* C1 happens: the startup restore has put an earlier session's record in  *)
(* the log, and a response and an error have been merged after it.         *)
C1_Witness ==
    /\ \E i \in 1..Len(logs) : logs[i].req = 0
    /\ \E i \in 1..Len(logs) : logs[i].req > 0 /\ HasKey(logs[i], "error")
    /\ \E i \in 1..Len(logs) : logs[i].req > 0 /\ HasKey(logs[i], "statusCode")

(* C3: no pending entry is merged twice: of every request event, at most   *)
(* one record is ever appended to this.logs.                               *)
C3_MergedAtMostOnce ==
    \A req \in DOMAIN appends : appends[req] <= 1

(* C3 happens: a completion event has just been handled, with logging on   *)
(* and the filter passed, for an id whose pending entry an earlier         *)
(* completion event had merged already; it appended nothing.               *)
C3_Witness ==
    /\ last.op \in {"onResponse", "onError"}
    /\ last.merged = NoMerge
    /\ ~last.threw
    /\ isLogging
    /\ filters = DefaultFilters
    /\ \E i \in 1..Len(logs) : logs[i].id = last.id /\ Count(logs[i].req) = 1
    /\ last.id \notin DOMAIN tempRequests

(* A completion event for id is handled in this step: the browser takes   *)
(* the request off its requests in flight.                                 *)
Completes(id) == id \in DOMAIN inflight /\ id \notin DOMAIN inflight'

(* The request in flight under id was admitted: its entry is pending. *)
Admitted(id) ==
    /\ id \in DOMAIN inflight
    /\ id \in DOMAIN tempRequests
    /\ tempRequests[id].req = inflight[id].req

(* C2: a request admitted at its start is not dropped at its completion:   *)
(* the completion event of an admitted request, handled while logging is   *)
(* enabled, appends one record and removes the pending entry, whatever     *)
(* control messages came in between.  It is stated for the completions    *)
(* handled under a FilterConfig: a setFilters that carried no filters is   *)
(* left out.                                                               *)
C2_AdmittedNotDropped ==
    [][\A id \in DOMAIN inflight :
          (Completes(id) /\ Admitted(id) /\ isLogging /\ ~IsUndefined(filters))
              => /\ Len(logs') = Len(logs) + 1
                 /\ id \notin DOMAIN tempRequests']_vars

(* C4: a completion event whose id has no pending entry is a no-op: the    *)
(* log, the table, the logging state and the slot are unchanged and no     *)
(* write is issued.                                                        *)
C4_UnknownIdIsNoOp ==
    [][\A id \in DOMAIN inflight :
          (Completes(id) /\ id \notin DOMAIN tempRequests)
              => UNCHANGED <<logs, tempRequests, isLogging, filters, storage,
                             calls>>]_vars

(* C4 happens: with logging on and the constructor's filters, which admit  *)
(* every descriptor, a response event found no pending entry.              *)
C4_Witness ==
    /\ last.op = "onResponse"
    /\ last.merged = NoMerge
    /\ ~last.threw
    /\ isLogging
    /\ filters = DefaultFilters
    /\ last.id \notin DOMAIN tempRequests

(* C5: no completion event is merged with the pending entry of another,    *)
(* earlier request that carried the same id.                               *)
C5_NoStaleMerge ==
    last.merged[1] = last.merged[2]

(* C6: the slot apiLogs never holds more than 1000 records. *)
C6_PersistedAtMostCap ==
    Len(storage.apiLogs) <= PersistCap

(* C6 happens: the log holds more than 1000 records, and a write issued    *)
(* after the append that took it over 1000 has landed in the slot.         *)
C6_Witness ==
    /\ Len(logs) > PersistCap
    /\ storage.present
    /\ Len(storage.apiLogs) = PersistCap
    /\ storage.apiLogs[PersistCap].req > 0

(* C7: clearLogs empties the log where it starts; when its handler sends   *)
(* the success reply the slot holds none of the records that the clear     *)
(* removed; and a getLogs handled after a clearLogs has replied, with no   *)
(* response or error event since that clearLogs started, is answered with  *)
(* an empty list and count 0.                                              *)
C7_ClearedTogether ==
    /\ (last.op = "clearLogs" /\ ~last.done) => logs = << >>
    /\ (last.op = "clearLogs" /\ last.sent # << >>)
           => ReqsOf(storage.apiLogs) \cap last.removed = {}
    /\ (/\ last.op = "getLogs"
        /\ emptied
        /\ \A i \in 1..Len(calls) : calls[i].kind # "clear")
           => last.sent = <<[logs |-> << >>, count |-> 0]>>

(* C8: once a clearLogs has been answered, no record that it removed from  *)
(* the log or from the slot is in the log or in the slot again.            *)
C8_NoResurrection ==
    /\ ReqsOf(logs) \cap wiped = {}
    /\ ReqsOf(storage.apiLogs) \cap wiped = {}

(* The actions of the control messages. *)
ControlActions ==
    {"startLogging", "stopLogging", "getLogs", "clearLogs", "exportLogs",
     "setFilters"} \cup OtherActions

(* C9: the handler of a control message, when it has ended, has called     *)
(* sendResponse once: not zero times, not twice.                           *)
C9_ExactlyOneReply ==
    (last.op \in ControlActions /\ last.done) => Len(last.sent) = 1

(* C10: a message with an unknown action is answered with a reply that     *)
(* has an error field and no success field, raises nothing, and leaves     *)
(* the flag, the FilterConfig, the log, the table and the slot unchanged.  *)
C10_UnknownActionError ==
    [][(nmsg' = nmsg + 1 /\ last'.op \in OtherActions)
          => /\ Len(last'.sent) = 1
             /\ HasKey(last'.sent[1], "error")
             /\ ~HasKey(last'.sent[1], "success")
             /\ ~last'.threw
             /\ UNCHANGED <<isLogging, filters, logs, tempRequests, storage>>]_vars

(* C10 happens: a logFromContent message was answered while logging was    *)
(* on, a record was in the log and an entry was pending.                   *)
C10_Witness ==
    /\ last.op = "logFromContent"
    /\ isLogging
    /\ Len(logs) > 0
    /\ DOMAIN tempRequests # {}

IsPrefix(s, t) == Len(s) <= Len(t) /\ SubSeq(t, 1, Len(s)) = s

(* C11: in every step that is not a step of the clearLogs handler, the     *)
(* log before the step is a prefix of the log after it.                    *)
C11_OnlyClearRemoves ==
    [][last'.op # "clearLogs" => IsPrefix(logs, logs')]_vars

WellFormed(f) ==
    /\ ~IsUndefined(f)
    /\ {"urls", "methods"} \subseteq DOMAIN f

(* C12: in every reachable state the FilterConfig is defined and has both  *)
(* fields, urls and methods, defined.                                      *)
C12_FiltersDefined ==
    WellFormed(filters)

(* The three-step rule, on a descriptor and a FilterConfig. *)
Range(a) == {a[i] : i \in 1..Len(a)}
Contains(s, p) ==
    \E a \in 0..Len(s) : \E b \in a..Len(s) : SubSeq(s, a + 1, b) = p
InternalOrFavicon(url) ==
    \/ Head(url) \in {"chrome-extension://", "moz-extension://"}
    \/ Contains(url, <<"favicon.ico">>)
ThreeStepRule(d, f) ==
    CASE d.method \notin Range(f.methods) -> FALSE
      [] OTHER ->
          IF Range(f.urls) # {}
          THEN \E p \in Range(f.urls) : Contains(d.url, p)
          ELSE ~InternalOrFavicon(d.url)

(* C13: a request event handled while logging is enabled is buffered       *)
(* exactly when the three-step rule accepts its descriptor under the       *)
(* FilterConfig; the evaluation changes neither the FilterConfig, the      *)
(* flag nor the log, and a rejected event leaves the table unchanged.      *)
C13_ShouldLogIsTheRule ==
    [][(last'.op = "onRequest" /\ nreq' = nreq + 1 /\ isLogging
           /\ WellFormed(filters))
          => \A id \in DOMAIN inflight' \ DOMAIN inflight :
                /\ (/\ id \in DOMAIN tempRequests'
                    /\ tempRequests'[id].req = inflight'[id].req)
                       = ThreeStepRule(inflight'[id], filters)
                /\ UNCHANGED <<filters, isLogging, logs, storage>>
                /\ ~ThreeStepRule(inflight'[id], filters)
                       => UNCHANGED tempRequests]_vars

(* C13 happens: under a FilterConfig with URL filters, a request whose URL *)
(* contains a configured substring and favicon.ico was buffered.           *)
C13_Witness ==
    /\ last.op = "onRequest"
    /\ Len(filters.urls) > 0
    /\ last.id \in DOMAIN tempRequests
    /\ Contains(tempRequests[last.id].url, <<"favicon.ico">>)
    /\ tempRequests[last.id].method = "GET"

(* C14: a request, response or error event handled while logging is        *)
(* disabled changes neither the log, the table nor the slot and issues no  *)
(* write; the stopLogging handler changes the flag and nothing else: the   *)
(* pending entries stay in the table and none is moved to the log.         *)
C14_DisabledIgnores ==
    [][/\ (~isLogging /\ (nreq' = nreq + 1 \/ DOMAIN inflight' # DOMAIN inflight))
           => UNCHANGED <<logs, tempRequests, storage, calls>>
       /\ (nmsg' = nmsg + 1 /\ last'.op = "stopLogging")
           => /\ ~isLogging'
              /\ UNCHANGED <<logs, tempRequests, filters, storage, calls>>]_vars

(* C14 happens: logging was stopped with an entry pending, and the         *)
(* response event of that entry has been handled since.                    *)
C14_Witness ==
    /\ ~isLogging
    /\ last.op = "onResponse"
    /\ last.id \in DOMAIN tempRequests
    /\ tempRequests[last.id].req = nreq

SetCalls(cs) == {i \in 1..Len(cs) : cs[i].kind = "set"}

(* C15: the step that issues a write has appended the record first, the    *)
(* write carries it, and the handler has ended with the write still in     *)
(* flight; a write that takes effect or fails changes neither the log,     *)
(* the table, the flag nor the FilterConfig.                               *)
C15_WriteNeverBlocks ==
    [][/\ Cardinality(SetCalls(calls')) > Cardinality(SetCalls(calls))
           => /\ Len(logs') = Len(logs) + 1
              /\ last'.done /\ ~last'.threw
              /\ calls'[Len(calls')].phase = "issued"
              /\ LET snapshot == calls'[Len(calls')].arg.apiLogs
                 IN  snapshot[Len(snapshot)] = logs'[Len(logs')]
       /\ Cardinality(SetCalls(calls')) < Cardinality(SetCalls(calls))
           => UNCHANGED <<logs, tempRequests, isLogging, filters>>]_vars

(* C15 happens: with a write still in flight, the events of a later        *)
(* request were handled and its record appended; the write carries fewer   *)
(* records than the log holds.                                             *)
C15_Witness ==
    /\ last.op \in {"onResponse", "onError"}
    /\ last.merged # NoMerge
    /\ \E i \in SetCalls(calls) :
          /\ calls[i].arg.apiLogs # << >>
          /\ Len(calls[i].arg.apiLogs) < Len(logs)

(* The last k elements of a, in their order. *)
Tail_(a, k) == [i \in 1..k |-> a[Len(a) - k + i]]
Min(a, b) == IF a <= b THEN a ELSE b

(* C16: a step issues a write exactly when it is a response event that     *)
(* appended a record; the log after the step is the log before it with     *)
(* that record at its end, and the write carries the last min(1000, n)     *)
(* records of the log after the step, in order.                            *)
C16_WriteAfterResponseAppend ==
    [][/\ (Cardinality(SetCalls(calls')) > Cardinality(SetCalls(calls)))
           = (last'.op = "onResponse" /\ last'.merged # NoMerge)
       /\ Cardinality(SetCalls(calls')) > Cardinality(SetCalls(calls))
           => /\ Len(logs') = Len(logs) + 1
              /\ IsPrefix(logs, logs')
              /\ calls'[Len(calls')].arg
                     = Slot(Tail_(logs', Min(PersistCap, Len(logs'))))]_vars

(* C16 happens: a response event appended the record that took the log     *)
(* over 1000 records, and the write it issued carries 1000 of them.        *)
C16_Witness ==
    /\ last.op = "onResponse"
    /\ last.merged # NoMerge
    /\ Len(logs) = PersistCap + 1
    /\ \E i \in SetCalls(calls) :
          /\ Len(calls[i].arg.apiLogs) = PersistCap
          /\ calls[i].arg.apiLogs[PersistCap] = logs[Len(logs)]

RequestFields == {"id", "timestamp", "method", "url", "requestBody"}

(* C17: the record appended for a matched pair has the id, timestamp,      *)
(* method, url and requestBody of the pending entry, statusCode and        *)
(* responseHeaders and no error (response event) or error and no           *)
(* statusCode (error event), and responseTimestamp and duration, with      *)
(* duration = responseTimestamp - timestamp in ms, not negative.           *)
C17_RecordHasBothHalves ==
    [][(last'.merged # NoMerge /\ last'.merged[1] = last'.merged[2])
          => LET entry == tempRequests[last'.id]
                 record == logs'[Len(logs')]
             IN  /\ \A k \in RequestFields : record[k] = entry[k]
                 /\ last'.op = "onResponse"
                        => /\ record.statusCode = 200
                           /\ HasKey(record, "responseHeaders")
                           /\ ~HasKey(record, "error")
                 /\ last'.op = "onError"
                        => /\ HasKey(record, "error")
                           /\ ~HasKey(record, "statusCode")
                 /\ record.duration >= 0
                 /\ record.duration = getTime(record.responseTimestamp)
                                          - getTime(record.timestamp)]_vars

(* C18: when no write and no clear is in flight and a write of this        *)
(* session has taken effect, the slot holds the last min(1000, n) records  *)
(* of the log, in order.  Stated for the sessions in which startLogging    *)
(* is the only control message handled so far, so that no clear precedes   *)
(* the write.                                                              *)
C18_SlotIsTailOfLog ==
    (/\ nmsg = 1
     /\ isLogging
     /\ \A i \in 1..Len(calls) : calls[i].kind \notin {"set", "clear"}
     /\ storage.present
     /\ \E i \in 1..Len(storage.apiLogs) : storage.apiLogs[i].req > 0)
        => storage.apiLogs = Tail_(logs, Min(PersistCap, Len(logs)))

(* C19: the document that exportLogs hands to a sink has totalRequests     *)
(* equal to the number of records of the log at the call, logs equal to    *)
(* the whole log in order, and filters equal to the FilterConfig, where    *)
(* there is one; the handler leaves the log, the table, the flag, the      *)
(* FilterConfig and the slot unchanged; an empty log gives logs << >> and  *)
(* totalRequests 0.                                                        *)
C19_ExportDocument ==
    [][(nmsg' = nmsg + 1 /\ last'.op = "exportLogs")
          => /\ UNCHANGED <<logs, tempRequests, isLogging, filters, storage>>
             /\ last'.delivery # NoDelivery
                   => LET doc == last'.delivery.document
                      IN  /\ doc.totalRequests = Len(logs)
                          /\ doc.logs = logs
                          /\ WellFormed(filters) => doc.filters = filters
                          /\ logs = << >>
                                => doc.logs = << >> /\ doc.totalRequests = 0]_vars

(* C19 happens: an export was handed to a sink while the log held more     *)
(* than 1000 records, under a FilterConfig.                                *)
C19_Witness ==
    /\ last.op = "exportLogs"
    /\ last.delivery # NoDelivery
    /\ WellFormed(filters)
    /\ Len(logs) > PersistCap
    /\ Len(last.delivery.document.logs) > PersistCap

(* C20: an exportLogs message is answered with success and its document    *)
(* reaches a sink: the new tab when downloads is unavailable, and the new  *)
(* tab, with the same document and filename, when the download fails; the  *)
(* log is unchanged in every case.                                         *)
C20_ExportFallsBack ==
    [][/\ (nmsg' = nmsg + 1 /\ last'.op = "exportLogs")
           => /\ last'.sent = <<Success("Export started")>>
              /\ last'.delivery.sink \in {"downloads", "tab"}
              /\ UNCHANGED logs
       /\ last'.op = "download.catch"
           => /\ \E i \in 1..Len(calls) :
                    /\ calls[i].kind = "download"
                    /\ last'.delivery.sink = "tab"
                    /\ last'.delivery.document = calls[i].arg.document
                    /\ last'.delivery.filename = calls[i].arg.filename
              /\ UNCHANGED logs]_vars

(* C21: getLogs is answered with the log as it is when the message is      *)
(* handled, in its order, and with its length as count; handling it        *)
(* changes nothing of the logger's state.                                  *)
C21_GetLogsReply ==
    [][(nmsg' = nmsg + 1 /\ last'.op = "getLogs")
          => /\ last'.sent = <<[logs |-> logs, count |-> Len(logs)]>>
             /\ UNCHANGED <<logs, tempRequests, isLogging, filters, storage,
                            calls>>]_vars

(* C21 happens: getLogs was answered while the log held two records that   *)
(* the slot does not hold.                                                 *)
C21_Witness ==
    /\ last.op = "getLogs"
    /\ Len(logs) = 2
    /\ logs[1] # logs[2]
    /\ storage.apiLogs # logs
    /\ last.sent[1].count = 2

(* C22: startLogging sets the flag and takes the message's filters when    *)
(* it has some, else keeps the FilterConfig; stopLogging clears the flag   *)
(* and keeps the FilterConfig; setFilters takes the message's filters and  *)
(* keeps the flag; none changes the log, the table or the slot, and each   *)
(* replies success.                                                        *)
C22_StartStopSetFilters ==
    [][(nmsg' = nmsg + 1
           /\ last'.op \in {"startLogging", "stopLogging", "setFilters"})
          => /\ last'.op = "startLogging"
                   => /\ isLogging'
                      /\ filters' = IF IsUndefined(last'.request)
                                    THEN filters ELSE last'.request
             /\ last'.op = "stopLogging"
                   => ~isLogging' /\ filters' = filters
             /\ last'.op = "setFilters"
                   => filters' = last'.request /\ isLogging' = isLogging
             /\ UNCHANGED <<logs, tempRequests, storage>>
             /\ Len(last'.sent) = 1
             /\ last'.sent[1].success = TRUE]_vars

(* C22 happens: a startLogging message without filters was handled under   *)
(* a FilterConfig that an earlier message had set, with a record in the    *)
(* log and an entry pending.                                               *)
C22_Witness ==
    /\ last.op = "startLogging"
    /\ IsUndefined(last.request)
    /\ filters = ApiGetFilters
    /\ Len(logs) > 0
    /\ DOMAIN tempRequests # {}

(* C23: the filename of an export is api-logs-<date>.json with <date> the  *)
(* date portion of the exportDate of its document.                         *)
C23_FilenameDateIsExportDate ==
    (last.op = "exportLogs" /\ last.delivery # NoDelivery)
        => last.delivery.filename
               = <<"api-logs-", last.delivery.document.exportDate.date, ".json">>

(* The pending entry of id is not in the table after the step as it was    *)
(* before it.                                                              *)
EntryGoneOrAltered(id) ==
    \/ id \notin DOMAIN tempRequests'
    \/ tempRequests'[id] # tempRequests[id]

(* The step is a completion event of id that appended the record merged    *)
(* from the pending entry and removed the entry.                           *)
MergedAway(id) ==
    /\ last'.op \in {"onResponse", "onError"}
    /\ last'.id = id
    /\ id \notin DOMAIN tempRequests'
    /\ Len(logs') = Len(logs) + 1
    /\ IsPrefix(logs, logs')
    /\ \A k \in RequestFields : logs'[Len(logs')][k] = tempRequests[id][k]

(* The step is an admitted request event that carries id again: its entry  *)
(* takes the place of the one pending under id.                            *)
Replaced(id) ==
    /\ last'.op = "onRequest"
    /\ last'.id = id
    /\ nreq' = nreq + 1
    /\ id \in DOMAIN tempRequests'
    /\ tempRequests'[id].req = nreq'
    /\ UNCHANGED logs

(* C24, as stated: a pending entry leaves the table, or changes, only in   *)
(* a completion event of its id that appends the merged record.            *)
C24_LeavesOnlyByCompletion ==
    [][\A id \in DOMAIN tempRequests :
          EntryGoneOrAltered(id) => MergedAway(id)]_vars

(* C24, amended: a pending entry leaves the table only in a completion     *)
(* event of its id that appends the merged record, or when a later         *)
(* admitted request event that carries the same id puts its own entry in   *)
(* its place; no control message removes or alters a pending entry.        *)
C24_LeavesByCompletionOrReuse ==
    [][\A id \in DOMAIN tempRequests :
          EntryGoneOrAltered(id) => (MergedAway(id) \/ Replaced(id))]_vars

(* C24 happens: the request of a pending entry has completed without an    *)
(* accepted completion event, a clearLogs has been handled to its end      *)
(* since, and the entry is still in the table.                             *)
C24_Witness ==
    /\ last.op = "clearLogs"
    /\ last.done
    /\ inflight = EmptyMap
    /\ \E id \in DOMAIN tempRequests : Count(tempRequests[id].req) = 0

(* C25: the request, response and error handlers end without raising an    *)
(* error, whatever control messages and events came before.                *)
C25_NoHandlerRaises ==
    last.op \in {"onRequest", "onResponse", "onError"} => ~last.threw

(* C26: a completion event that appends a record puts it at the end of     *)
(* the log, after the records of the completions handled before it,        *)
(* whatever the order of the request events; getLogs, the write issued     *)
(* and the export carry the records in the order of the log.               *)
C26_CompletionOrder ==
    [][/\ last'.merged # NoMerge
           => /\ IsPrefix(logs, logs')
              /\ Len(logs') = Len(logs) + 1
              /\ logs'[Len(logs')].req = tempRequests[last'.id].req
       /\ (nmsg' = nmsg + 1 /\ last'.op = "getLogs")
           => last'.sent[1].logs = logs
       /\ Cardinality(SetCalls(calls')) > Cardinality(SetCalls(calls))
           => calls'[Len(calls')].arg.apiLogs
                  = Tail_(logs', Min(PersistCap, Len(logs')))
       /\ (nmsg' = nmsg + 1 /\ last'.op = "exportLogs"
              /\ last'.delivery # NoDelivery)
           => last'.delivery.document.logs = logs]_vars

(* C26 happens: request 1 was admitted before request 2 and completed      *)
(* after it; the log, the slot and a getLogs reply hold the record of      *)
(* request 2 before the record of request 1.                               *)
C26_Witness ==
    /\ Len(logs) = 2
    /\ logs[1].req = 2
    /\ logs[2].req = 1
    /\ logs[1].timestamp = logs[2].timestamp
    /\ storage.apiLogs = logs
    /\ last.op = "getLogs"
    /\ last.sent[1].logs = logs

(* The request event r was admitted and its completion event is still to   *)
(* come.                                                                   *)
PendingReq(r) ==
    \E id \in DOMAIN inflight :
        /\ inflight[id].req = r
        /\ id \in DOMAIN tempRequests
        /\ tempRequests[id].req = r

(* One record was built from the request event r, and its entry is gone. *)
ClosedReq(r) ==
    /\ Count(r) = 1
    /\ \A id \in DOMAIN tempRequests : tempRequests[id].req # r

(* C27: while logging stays enabled under one FilterConfig, every admitted *)
(* request whose completion event is delivered is closed (its record was   *)
(* appended, its entry is gone), and when no request is in flight the      *)
(* table is empty.                                                         *)
C27_AdmittedReachesClosed ==
    /\ \A r \in 1..LiveReq : PendingReq(r) ~> ClosedReq(r)
    /\ [](inflight = EmptyMap => tempRequests = EmptyMap)

(* C27 happens: two requests were admitted, both have completed, both      *)
(* records were appended and the table is empty.                           *)
C27_Witness ==
    /\ nreq = LiveReq
    /\ inflight = EmptyMap
    /\ tempRequests = EmptyMap
    /\ \A r \in 1..LiveReq : Count(r) = 1

(* C28: when the write issued last was issued with another write in        *)
(* flight and has taken effect, the slot holds its snapshot, and the step  *)
(* in which the last outstanding write takes effect leaves that snapshot   *)
(* in the slot: no older snapshot takes its place.                         *)
C28_LastIssuedWriteWins ==
    [][\A i \in SetCalls(calls) :
          (/\ written.concurrent
           /\ storage = written.snapshot
           /\ calls' = RemoveAt(calls, i)
           /\ SetCalls(calls') = {}
           /\ storage' = calls[i].arg)
              => storage' = written.snapshot]_vars

====
